---- MODULE Spec2Model ----
(***************************************************************************)
(* A model of tensorflow/core/framework/cancellation.cc: a root            *)
(* CancellationManager "p", one child manager "c" bound to it, and a few   *)
(* threads that call the managers' operations.  Every critical section     *)
(* under mu_ is one atomic step; the callbacks of a cancellation pass run  *)
(* between two critical sections, one step to invoke each and one step for *)
(* it to return.  A thread's position is a call stack of frames.           *)
(***************************************************************************)
EXTENDS Integers, Sequences, FiniteSets, TLC

\* ---------------------------------------------------------------- bounds
NumThreads == 2
MaxTokens == 2

Threads == 1..NumThreads
Managers == {"p", "c"}

\* ------------------------------------------------------ program constants
kInvalidToken == -1
\* Mutant: the counter starts at the invalid token.
InitialToken_Invalid == 0 - 1
InitialToken == 0

\* No thread holds the lock.
NoThread == 0

\* parent_ of each manager: "c" is constructed on "p", "p" stands alone.
NoManager == "none"
Parent(m) == IF m = "c" THEN "p" ELSE NoManager

VARIABLES
  life,           \* per manager: "unborn", "ctor", "live", "dtor", "dead"
  is_cancelling,  \* is_cancelling_
  is_cancelled,   \* is_cancelled_
  next_token,     \* next_cancellation_token_
  state_,         \* whether state_ is allocated
  callbacks,      \* state_->callbacks, the set of tokens holding a callback
  notified,       \* state_->cancelled_notification has been notified
  parent_token,   \* parent_token_
  stack,          \* per thread: the call stack, innermost frame last
  issued,         \* history: the tokens handed out, in order of issue
  accepted,       \* history: tokens whose RegisterCallback returned true
  refused,        \* history: tokens whose RegisterCallback returned false
  removed,        \* history: tokens whose callback was erased while Idle
  started,        \* history: how many times each callback was invoked
  passBy,         \* history: who made the Idle->Cancelling transition
  mu              \* mu_: the thread holding the manager's lock, or NoThread

vars == <<life, is_cancelling, is_cancelled, next_token, state_, callbacks,
          notified, parent_token, stack, issued, accepted, refused,
          removed, started, passBy, mu>>

Tokens == InitialToken..(InitialToken + MaxTokens - 1)

\* The tri-state of the spec, read off the two flags of the code.
ManagerState(m) ==
  IF is_cancelled[m] /\ is_cancelling[m] THEN "Corrupt"
  ELSE IF is_cancelled[m] THEN "Cancelled"
  ELSE IF is_cancelling[m] THEN "Cancelling"
  ELSE "Idle"

\* ----------------------------------------------------------------- frames
Frame(op, m, k, pc, todo, notif) ==
  [op |-> op, m |-> m, k |-> k, pc |-> pc, todo |-> todo, notif |-> notif]

Idle(t) == stack[t] = <<>>
Top(t) == stack[t][Len(stack[t])]
Below(t) == SubSeq(stack[t], 1, Len(stack[t]) - 1)
\* Threads are interchangeable: a new call is made by the first thread that
\* is inside no call.
Begins(t) == Idle(t) /\ \A u \in Threads : u < t => ~Idle(u)
AtTop(t, op, pc) == ~Idle(t) /\ Top(t).op = op /\ Top(t).pc = pc
\* Thread t is executing a callback (pc: "body", or the operation of the
\* manager that the callback called last).
InCallback(t) == ~Idle(t) /\ Top(t).op = "Callback"

\* The callback the child registers on its parent: [this]() { StartCancel(); }
IsCascade(m, k) == m = Parent("c") /\ k = parent_token["c"]

\* mutex_lock l(mu_) / mu_.lock(): a critical section starts only while no
\* thread holds the lock.
Free(m) == mu[m] = NoThread

\* Thread t may call an operation of m: as a new call, or from inside a
\* callback that a pass of m is executing (the child's cascade callback
\* calls nothing but the child's StartCancel).
Calls(t, m) ==
  IF Idle(t)
  THEN Begins(t) /\ life[m] = "live"
  ELSE /\ InCallback(t) /\ Top(t).m = m
       /\ ~IsCascade(m, Top(t).k)
       /\ life[m] \in {"live", "dtor"}

\* The stack a call of operation op returns to: that of its caller, where a
\* callback that made the call is past it (pc names the last operation the
\* callback called).
Returned(t, op) ==
  IF Idle(t) THEN <<>> ELSE Append(Below(t), [Top(t) EXCEPT !.pc = op])

\* A call made with `base` as the caller's stack returns to its caller.
\* The value a call returns is a parameter r of its action: the step is
\* possible only with the value the code returns.
Finish(t, base) == stack' = [stack EXCEPT ![t] = base]

\* Callback k of m is captured by a pass in flight and not yet invoked
\* (Waiting), or is executing; Unfinished: not yet returned.
Waiting(m, k) ==
  \E t \in Threads : \E i \in 1..Len(stack[t]) :
    stack[t][i].m = m /\ stack[t][i].op = "StartCancel" /\ k \in stack[t][i].todo
Executing(m, k) ==
  \E t \in Threads : \E i \in 1..Len(stack[t]) :
    stack[t][i].m = m /\ stack[t][i].op = "Callback" /\ stack[t][i].k = k
Unfinished(m, k) == Waiting(m, k) \/ Executing(m, k)

\* No callback of a pass of m is waiting or executing.
AllReturned(m) ==
  \A t \in Threads : \A i \in 1..Len(stack[t]) :
    stack[t][i].m = m =>
      /\ stack[t][i].op # "Callback"
      /\ stack[t][i].op = "StartCancel" => stack[t][i].todo = {}

\* ------------------------------------------------------------------- Init
\* "p" has been constructed by CancellationManager(); "c" is not yet built.
Init ==
  /\ life = [m \in Managers |-> IF m = "p" THEN "live" ELSE "unborn"]
  /\ is_cancelling = [m \in Managers |-> FALSE]
  /\ is_cancelled = [m \in Managers |-> FALSE]
  /\ next_token = [m \in Managers |-> InitialToken]
  /\ state_ = [m \in Managers |-> FALSE]
  /\ callbacks = [m \in Managers |-> {}]
  /\ notified = [m \in Managers |-> FALSE]
  /\ parent_token = [m \in Managers |-> kInvalidToken]
  /\ stack = [t \in Threads |-> <<>>]
  /\ issued = [m \in Managers |-> <<>>]
  /\ accepted = [m \in Managers |-> {}]
  /\ refused = [m \in Managers |-> {}]
  /\ removed = [m \in Managers |-> {}]
  /\ started = [m \in Managers |-> [k \in Tokens |-> 0]]
  /\ passBy = [m \in Managers |-> "none"]
  /\ mu = [m \in Managers |-> NoThread]

\* ------------------------------------------------- the bodies of the calls

\* get_cancellation_token(): the counter is read and incremented atomically.
TakeToken(m) ==
  /\ next_token' = [next_token EXCEPT ![m] = @ + 1]
  /\ issued' = [issued EXCEPT ![m] = Append(@, next_token[m])]

\* Mutant: a registration is refused only once the pass is over.
should_register_IgnoreCancelling(m) == ~is_cancelled[m]

\* RegisterCallback, lines 79-87.
should_register(m) == ~is_cancelled[m] /\ ~is_cancelling[m]

\* Mutant: the callback is accepted but not stored (line 85 is missing).
RegisterStore_NotStored(m, k) ==
  IF should_register(m)
  THEN /\ state_' = [state_ EXCEPT ![m] = TRUE]
       /\ accepted' = [accepted EXCEPT ![m] = @ \cup {k}]
       /\ UNCHANGED <<callbacks, refused>>
  ELSE /\ refused' = [refused EXCEPT ![m] = @ \cup {k}]
       /\ UNCHANGED <<state_, callbacks, accepted>>

RegisterStore(m, k) ==
  IF should_register(m)
  THEN /\ state_' = [state_ EXCEPT ![m] = TRUE]
       /\ callbacks' = [callbacks EXCEPT ![m] = @ \cup {k}]
       /\ accepted' = [accepted EXCEPT ![m] = @ \cup {k}]
       /\ UNCHANGED refused
  ELSE /\ refused' = [refused EXCEPT ![m] = @ \cup {k}]
       /\ UNCHANGED <<state_, callbacks, accepted>>

\* Mutant: the guard of line 49 forgets is_cancelling_.
StartCancelEnter_NoCancellingCheck(t, m, base, who) ==
  IF is_cancelled[m]
  THEN /\ Finish(t, base)
       /\ mu' = [mu EXCEPT ![m] = NoThread]
       /\ UNCHANGED <<is_cancelling, callbacks, passBy>>
  ELSE /\ is_cancelling' = [is_cancelling EXCEPT ![m] = TRUE]
       /\ callbacks' = [callbacks EXCEPT ![m] = {}]
       /\ passBy' = [passBy EXCEPT ![m] = who]
       /\ stack' = [stack EXCEPT ![t] =
            Append(base, Frame("StartCancel", m, kInvalidToken, "run",
                               IF state_[m] THEN callbacks[m] ELSE {},
                               state_[m]))]
       /\ mu' = [mu EXCEPT ![m] = NoThread]

\* Mutant: the guard of line 49 forgets is_cancelled_.
StartCancelEnter_NoCancelledCheck(t, m, base, who) ==
  IF is_cancelling[m]
  THEN /\ Finish(t, base)
       /\ mu' = [mu EXCEPT ![m] = NoThread]
       /\ UNCHANGED <<is_cancelling, callbacks, passBy>>
  ELSE /\ is_cancelling' = [is_cancelling EXCEPT ![m] = TRUE]
       /\ callbacks' = [callbacks EXCEPT ![m] = {}]
       /\ passBy' = [passBy EXCEPT ![m] = who]
       /\ stack' = [stack EXCEPT ![t] =
            Append(base, Frame("StartCancel", m, kInvalidToken, "run",
                               IF state_[m] THEN callbacks[m] ELSE {},
                               state_[m]))]
       /\ mu' = [mu EXCEPT ![m] = NoThread]

\* Mutant: the scope of the lock (line 57) extends over the callbacks.
StartCancelEnter_RunsLocked(t, m, base, who) ==
  IF is_cancelled[m] \/ is_cancelling[m]
  THEN /\ Finish(t, base)
       /\ mu' = [mu EXCEPT ![m] = NoThread]
       /\ UNCHANGED <<is_cancelling, callbacks, passBy>>
  ELSE /\ is_cancelling' = [is_cancelling EXCEPT ![m] = TRUE]
       /\ callbacks' = [callbacks EXCEPT ![m] = {}]
       /\ passBy' = [passBy EXCEPT ![m] = who]
       /\ stack' = [stack EXCEPT ![t] =
            Append(base, Frame("StartCancel", m, kInvalidToken, "run",
                               IF state_[m] THEN callbacks[m] ELSE {},
                               state_[m]))]
       /\ mu' = [mu EXCEPT ![m] = t]

\* Mutant: the callbacks are copied, not swapped out (line 54).
StartCancelEnter_NoSwap(t, m, base, who) ==
  IF is_cancelled[m] \/ is_cancelling[m]
  THEN /\ Finish(t, base)
       /\ mu' = [mu EXCEPT ![m] = NoThread]
       /\ UNCHANGED <<is_cancelling, callbacks, passBy>>
  ELSE /\ is_cancelling' = [is_cancelling EXCEPT ![m] = TRUE]
       /\ callbacks' = callbacks
       /\ passBy' = [passBy EXCEPT ![m] = who]
       /\ stack' = [stack EXCEPT ![t] =
            Append(base, Frame("StartCancel", m, kInvalidToken, "run",
                               IF state_[m] THEN callbacks[m] ELSE {},
                               state_[m]))]
       /\ mu' = [mu EXCEPT ![m] = NoThread]

\* StartCancel, lines 47-57: the first critical section.  `who` names the
\* caller for the history only.
StartCancelEnter(t, m, base, who) ==
  IF is_cancelled[m] \/ is_cancelling[m]
  THEN /\ Finish(t, base)
       /\ mu' = [mu EXCEPT ![m] = NoThread]
       /\ UNCHANGED <<is_cancelling, callbacks, passBy>>
  ELSE /\ is_cancelling' = [is_cancelling EXCEPT ![m] = TRUE]
       /\ callbacks' = [callbacks EXCEPT ![m] = {}]
       /\ passBy' = [passBy EXCEPT ![m] = who]
       /\ stack' = [stack EXCEPT ![t] =
            Append(base, Frame("StartCancel", m, kInvalidToken, "run",
                               IF state_[m] THEN callbacks[m] ELSE {},
                               state_[m]))]
       /\ mu' = [mu EXCEPT ![m] = NoThread]

\* Mutant: no wait on the notification while Cancelling.
DeregisterEnter_NoWait(t, m, k, base, r) ==
  IF is_cancelled[m] \/ is_cancelling[m]
  THEN /\ r = FALSE /\ Finish(t, base)
       /\ UNCHANGED <<callbacks, removed>>
  ELSE /\ callbacks' = [callbacks EXCEPT ![m] = @ \ {k}]
       /\ removed' = [removed EXCEPT ![m] = @ \cup (callbacks[m] \cap {k})]
       /\ r = TRUE /\ Finish(t, base)

\* Mutant: nothing is erased while Idle.
DeregisterEnter_NoErase(t, m, k, base, r) ==
  IF is_cancelled[m]
  THEN /\ r = FALSE /\ Finish(t, base)
       /\ UNCHANGED <<callbacks, removed>>
  ELSE IF is_cancelling[m]
  THEN /\ IF state_[m]
          THEN /\ stack' = [stack EXCEPT ![t] =
                    Append(base, Frame("Deregister", m, k, "wait", {}, TRUE))]
               /\ r = FALSE

          ELSE r = FALSE /\ Finish(t, base)
       /\ UNCHANGED <<callbacks, removed>>
  ELSE /\ UNCHANGED <<callbacks, removed>>
       /\ r = TRUE /\ Finish(t, base)

\* Mutant: callbacks.clear() in place of callbacks.erase(token).
DeregisterEnter_EraseAll(t, m, k, base, r) ==
  IF is_cancelled[m]
  THEN /\ r = FALSE /\ Finish(t, base)
       /\ UNCHANGED <<callbacks, removed>>
  ELSE IF is_cancelling[m]
  THEN /\ IF state_[m]
          THEN /\ stack' = [stack EXCEPT ![t] =
                    Append(base, Frame("Deregister", m, k, "wait", {}, TRUE))]
               /\ r = FALSE

          ELSE r = FALSE /\ Finish(t, base)
       /\ UNCHANGED <<callbacks, removed>>
  ELSE /\ callbacks' = [callbacks EXCEPT ![m] = {}]
       /\ removed' = [removed EXCEPT ![m] = @ \cup (callbacks[m] \cap {k})]
       /\ r = TRUE /\ Finish(t, base)

\* DeregisterCallback, lines 91-113.  r is the value the call returns, at
\* once or (line 106) after the wait.
DeregisterEnter(t, m, k, base, r) ==
  IF is_cancelled[m]
  THEN /\ r = FALSE /\ Finish(t, base)
       /\ UNCHANGED <<callbacks, removed>>
  ELSE IF is_cancelling[m]
  THEN /\ IF state_[m]
          THEN /\ stack' = [stack EXCEPT ![t] =
                    Append(base, Frame("Deregister", m, k, "wait", {}, TRUE))]
               /\ r = FALSE

          ELSE r = FALSE /\ Finish(t, base)
       /\ UNCHANGED <<callbacks, removed>>
  ELSE /\ callbacks' = [callbacks EXCEPT ![m] = @ \ {k}]
       /\ removed' = [removed EXCEPT ![m] = @ \cup (callbacks[m] \cap {k})]
       /\ r = TRUE /\ Finish(t, base)

\* Mutant: TryDeregisterCallback waits like DeregisterCallback (lines 95-106).
TryDeregisterBody_Waits(t, m, k, r) ==
  IF is_cancelled[m]
  THEN /\ r = FALSE /\ Finish(t, Returned(t, "TryDeregisterCallback"))
       /\ UNCHANGED <<callbacks, removed>>
  ELSE IF is_cancelling[m]
  THEN /\ stack' = [stack EXCEPT ![t] =
            Append(Returned(t, "TryDeregisterCallback"),
                   Frame("Deregister", m, k, "wait", {}, TRUE))]
       /\ r = FALSE
       /\ UNCHANGED <<callbacks, removed>>
  ELSE /\ callbacks' = [callbacks EXCEPT ![m] = @ \ {k}]
       /\ removed' = [removed EXCEPT ![m] = @ \cup (callbacks[m] \cap {k})]
       /\ r = TRUE /\ Finish(t, Returned(t, "TryDeregisterCallback"))

\* TryDeregisterCallback, lines 117-125.
TryDeregisterBody(t, m, k, r) ==
  IF is_cancelled[m] \/ is_cancelling[m]
  THEN /\ r = FALSE /\ Finish(t, Returned(t, "TryDeregisterCallback"))
       /\ UNCHANGED <<callbacks, removed>>
  ELSE /\ callbacks' = [callbacks EXCEPT ![m] = @ \ {k}]
       /\ removed' = [removed EXCEPT ![m] = @ \cup (callbacks[m] \cap {k})]
       /\ r = TRUE /\ Finish(t, Returned(t, "TryDeregisterCallback"))

\* ---------------------------------------------------------------- actions
\* The run issues at most MaxTokens tokens, over both managers.
TokensLeft == Len(issued["p"]) + Len(issued["c"]) < MaxTokens

\* The tokens a caller may present to m: issued by m (DCHECK_LT, line 78)
\* and not the one the child holds for its own cascade callback.
UserTokens(m) == {k \in Tokens : k < next_token[m] /\ ~IsCascade(m, k)}

GetToken(t, m, n) ==
  /\ Calls(t, m) /\ Free(m)
  /\ TokensLeft
  /\ TakeToken(m)
  /\ n = next_token[m]
  /\ Finish(t, Returned(t, "GetToken"))
  /\ UNCHANGED <<life, is_cancelling, is_cancelled, state_, callbacks,
                 notified, parent_token, accepted, refused, removed,
                 started, passBy>>
  /\ UNCHANGED mu

\* RegisterCallback(token, callback), lines 76-88.  Each token is presented
\* for registration once (the precondition of section 4.2).
RegisterCallback(t, m, k, r) ==
  /\ Calls(t, m) /\ Free(m)
  /\ k \in UserTokens(m) \ (accepted[m] \cup refused[m])
  /\ RegisterStore(m, k)
  /\ r = should_register(m)
  /\ Finish(t, Returned(t, "RegisterCallback"))
  /\ UNCHANGED <<life, is_cancelling, is_cancelled, next_token, notified,
                 parent_token, issued, removed, started, passBy>>
  /\ UNCHANGED mu

\* DeregisterCallback(token), lines 90-114.
DeregisterCallback(t, m, k, r) ==
  /\ Calls(t, m) /\ Free(m)
  /\ k \in UserTokens(m)
  /\ DeregisterEnter(t, m, k, Returned(t, "DeregisterCallback"), r)
  /\ UNCHANGED <<life, is_cancelling, is_cancelled, next_token, state_,
                 notified, parent_token, issued, accepted, refused, started,
                 passBy>>
  /\ UNCHANGED mu

\* Mutant: WaitForNotification (line 104) returns without the notification.
DeregisterWake_Early(t, r) ==
  /\ AtTop(t, "Deregister", "wait")
  /\ r = FALSE /\ Finish(t, Below(t))
  /\ UNCHANGED <<life, is_cancelling, is_cancelled, next_token, state_,
                 callbacks, notified, parent_token, issued, accepted, refused,
                 removed, started, passBy>>
  /\ UNCHANGED mu

\* Lines 103-106: the wait ends once the notification is set.
DeregisterWake(t, r) ==
  /\ AtTop(t, "Deregister", "wait")
  /\ notified[Top(t).m]
  /\ r = FALSE /\ Finish(t, Below(t))
  /\ UNCHANGED <<life, is_cancelling, is_cancelled, next_token, state_,
                 callbacks, notified, parent_token, issued, accepted, refused,
                 removed, started, passBy>>
  /\ UNCHANGED mu

\* TryDeregisterCallback(token), lines 116-126.
TryDeregisterCallback(t, m, k, r) ==
  /\ Calls(t, m) /\ Free(m)
  /\ k \in UserTokens(m)
  /\ TryDeregisterBody(t, m, k, r)
  /\ UNCHANGED <<life, is_cancelling, is_cancelled, next_token, state_,
                 notified, parent_token, issued, accepted, refused, started,
                 passBy>>
  /\ UNCHANGED mu

\* IsCancelled(): an atomic load of is_cancelled_.
IsCancelled(t, m, r) ==
  /\ Calls(t, m)
  /\ r = is_cancelled[m]
  /\ Finish(t, Returned(t, "IsCancelled"))
  /\ UNCHANGED <<life, is_cancelling, is_cancelled, next_token, state_,
                 callbacks, notified, parent_token, issued, accepted,
                 refused, removed, started, passBy>>
  /\ UNCHANGED mu

\* StartCancel() called by a thread, lines 44-57.
StartCancel(t, m) ==
  /\ Calls(t, m) /\ Free(m)
  /\ StartCancelEnter(t, m, Returned(t, "StartCancel"), "user")
  /\ UNCHANGED <<life, is_cancelled, next_token, state_, notified,
                 parent_token, issued, accepted, refused, removed, started>>

\* Mutant: the cascade callback does not reach the child's StartCancel.
StartCancelInvoke_NoCascade(t, k) ==
  /\ AtTop(t, "StartCancel", "run")
  /\ k \in Top(t).todo
  /\ LET m == Top(t).m
         base == Append(Below(t), [Top(t) EXCEPT !.todo = @ \ {k}])
         cb == Frame("Callback", m, k, "body", {}, FALSE)
     IN /\ started' = [started EXCEPT ![m][k] = @ + 1]
        /\ stack' = [stack EXCEPT ![t] = Append(base, cb)]
        /\ UNCHANGED <<is_cancelling, callbacks, passBy, mu>>
  /\ UNCHANGED <<life, is_cancelled, next_token, state_, notified,
                 parent_token, issued, accepted, refused, removed>>

\* Mutant: the callback is invoked with mu_ taken.
StartCancelInvoke_Locked(t, k) ==
  /\ AtTop(t, "StartCancel", "run")
  /\ k \in Top(t).todo
  /\ LET m == Top(t).m
         base == Append(Below(t), [Top(t) EXCEPT !.todo = @ \ {k}])
         cb == Frame("Callback", m, k, "body", {}, FALSE)
     IN /\ started' = [started EXCEPT ![m][k] = @ + 1]
        /\ IF IsCascade(m, k)
           THEN /\ Free("c")
                /\ StartCancelEnter(t, "c", Append(base, cb), "cascade")
           ELSE /\ stack' = [stack EXCEPT ![t] = Append(base, cb)]
                /\ Free(m) /\ mu' = [mu EXCEPT ![m] = t]
                /\ UNCHANGED <<is_cancelling, callbacks, passBy>>
  /\ UNCHANGED <<life, is_cancelled, next_token, state_, notified,
                 parent_token, issued, accepted, refused, removed>>

\* Lines 63-65: the pass invokes one of the callbacks it captured.  The
\* child's cascade callback goes straight into the child's StartCancel.
StartCancelInvoke(t, k) ==
  /\ AtTop(t, "StartCancel", "run")
  /\ k \in Top(t).todo
  /\ LET m == Top(t).m
         base == Append(Below(t), [Top(t) EXCEPT !.todo = @ \ {k}])
         cb == Frame("Callback", m, k, "body", {}, FALSE)
     IN /\ started' = [started EXCEPT ![m][k] = @ + 1]
        /\ IF IsCascade(m, k)
           THEN /\ Free("c")
                /\ StartCancelEnter(t, "c", Append(base, cb), "cascade")
           ELSE /\ stack' = [stack EXCEPT ![t] = Append(base, cb)]
                /\ UNCHANGED <<is_cancelling, callbacks, passBy, mu>>
  /\ UNCHANGED <<life, is_cancelled, next_token, state_, notified,
                 parent_token, issued, accepted, refused, removed>>

\* The callback returns to the loop of line 63.
CallbackReturn(t) ==
  /\ InCallback(t)
  /\ stack' = [stack EXCEPT ![t] = Below(t)]
  /\ UNCHANGED <<life, is_cancelling, is_cancelled, next_token, state_,
                 callbacks, notified, parent_token, issued, accepted,
                 refused, removed, started, passBy>>
  /\ UNCHANGED mu

\* Mutant: is_cancelling_ is not cleared.
StartCancelFinish_KeepCancelling(t) ==
  /\ AtTop(t, "StartCancel", "run")
  /\ Free(Top(t).m)
  /\ Top(t).todo = {}
  /\ is_cancelled' = [is_cancelled EXCEPT ![Top(t).m] = TRUE]
  /\ stack' = [stack EXCEPT ![t] = Append(Below(t), [Top(t) EXCEPT !.pc = "notify"])]
  /\ UNCHANGED <<life, is_cancelling, next_token, state_, callbacks, notified,
                 parent_token, issued, accepted, refused, removed,
                 started, passBy>>
  /\ UNCHANGED mu

\* Mutant: is_cancelled_ is stored before the callbacks have been invoked.
StartCancelFinish_Early(t) ==
  /\ AtTop(t, "StartCancel", "run")
  /\ Free(Top(t).m)
  /\ is_cancelling' = [is_cancelling EXCEPT ![Top(t).m] = FALSE]
  /\ is_cancelled' = [is_cancelled EXCEPT ![Top(t).m] = TRUE]
  /\ stack' = [stack EXCEPT ![t] = Append(Below(t), [Top(t) EXCEPT !.pc = "notify"])]
  /\ UNCHANGED <<life, next_token, state_, callbacks, notified, parent_token,
                 issued, accepted, refused, removed, started, passBy>>
  /\ UNCHANGED mu

\* Mutant: line 69 is missing, is_cancelled_ is never stored.
StartCancelFinish_NoStore(t) ==
  /\ AtTop(t, "StartCancel", "run")
  /\ Free(Top(t).m)
  /\ Top(t).todo = {}
  /\ is_cancelling' = [is_cancelling EXCEPT ![Top(t).m] = FALSE]
  /\ stack' = [stack EXCEPT ![t] = Append(Below(t), [Top(t) EXCEPT !.pc = "notify"])]
  /\ UNCHANGED <<life, is_cancelled, next_token, state_, callbacks, notified,
                 parent_token, issued, accepted, refused, removed, started,
                 passBy>>
  /\ UNCHANGED mu

\* Lines 66-70: the second critical section.
StartCancelFinish(t) ==
  /\ AtTop(t, "StartCancel", "run")
  /\ Free(Top(t).m)
  /\ Top(t).todo = {}
  /\ is_cancelling' = [is_cancelling EXCEPT ![Top(t).m] = FALSE]
  /\ is_cancelled' = [is_cancelled EXCEPT ![Top(t).m] = TRUE]
  /\ stack' = [stack EXCEPT ![t] = Append(Below(t), [Top(t) EXCEPT !.pc = "notify"])]
  /\ UNCHANGED <<life, next_token, state_, callbacks, notified, parent_token,
                 issued, accepted, refused, removed, started, passBy>>
  /\ UNCHANGED mu

\* Mutant: lines 71-73 are missing, the notification is never sent.
StartCancelNotify_NoNotify(t) ==
  /\ AtTop(t, "StartCancel", "notify")
  /\ Finish(t, Below(t))
  /\ UNCHANGED <<life, is_cancelling, is_cancelled, next_token, state_,
                 callbacks, notified, parent_token, issued, accepted, refused,
                 removed, started, passBy>>
  /\ UNCHANGED mu

\* Lines 71-74: Notify() and return.
StartCancelNotify(t) ==
  /\ AtTop(t, "StartCancel", "notify")
  /\ notified' = IF Top(t).notif THEN [notified EXCEPT ![Top(t).m] = TRUE]
                 ELSE notified
  /\ Finish(t, Below(t))
  /\ UNCHANGED <<life, is_cancelling, is_cancelled, next_token, state_,
                 callbacks, parent_token, issued, accepted, refused, removed,
                 started, passBy>>
  /\ UNCHANGED mu

\* CancellationManager(parent), line 36: the child takes a token of the parent.
CtorGetToken(t) ==
  /\ Begins(t) /\ life["c"] = "unborn" /\ life[Parent("c")] = "live"
  /\ TokensLeft /\ Free(Parent("c"))
  /\ TakeToken(Parent("c"))
  /\ parent_token' = [parent_token EXCEPT !["c"] = next_token[Parent("c")]]
  /\ life' = [life EXCEPT !["c"] = "ctor"]
  /\ stack' = [stack EXCEPT ![t] = <<Frame("Ctor", "c", kInvalidToken, "register", {}, FALSE)>>]
  /\ UNCHANGED <<is_cancelling, is_cancelled, state_, callbacks, notified,
                 accepted, refused, removed, started, passBy>>
  /\ UNCHANGED mu

\* Mutant: lines 39-41 are missing, a refused child stays Idle.
CtorRegister_NotBornCancelled(t) ==
  /\ AtTop(t, "Ctor", "register") /\ Free(Parent("c"))
  /\ RegisterStore(Parent("c"), parent_token["c"])
  /\ life' = [life EXCEPT !["c"] = "live"]
  /\ Finish(t, <<>>)
  /\ UNCHANGED <<is_cancelling, is_cancelled, next_token, notified,
                 parent_token, issued, removed, started, passBy>>
  /\ UNCHANGED mu

\* Lines 37-42: register the cascade callback; born Cancelled if refused.
CtorRegister(t) ==
  /\ AtTop(t, "Ctor", "register") /\ Free(Parent("c"))
  /\ RegisterStore(Parent("c"), parent_token["c"])
  /\ is_cancelled' = [is_cancelled EXCEPT !["c"] = ~should_register(Parent("c"))]
  /\ life' = [life EXCEPT !["c"] = "live"]
  /\ Finish(t, <<>>)
  /\ UNCHANGED <<is_cancelling, next_token, notified, parent_token, issued,
                 removed, started, passBy>>
  /\ UNCHANGED mu

\* A manager is destroyed by a thread while no other thread is inside a call
\* it made on that manager (the child's constructor and destructor are calls
\* on the parent too), and a child while its parent_ still points to a
\* manager that is not being, and has not been, destroyed.
MayDestroy(t, m) ==
  /\ life[m] = "live"
  /\ \A u \in Threads \ {t} : ~Idle(u) => stack[u][1].m # m
  /\ m = Parent("c") => life["c"] \in {"unborn", "live", "dead"}
  /\ Parent(m) # NoManager => life[Parent(m)] = "live"

\* ~CancellationManager(), lines 129-131.
DtorBegin(t, m) ==
  /\ Begins(t) /\ MayDestroy(t, m)
  /\ life' = [life EXCEPT ![m] = "dtor"]
  /\ LET fr == <<Frame("Dtor", m, kInvalidToken, "cancel", {}, FALSE)>>
     IN IF Parent(m) # NoManager
        THEN /\ Free(Parent(m))
             /\ \E r \in BOOLEAN :
                  DeregisterEnter(t, Parent(m), parent_token[m], fr, r)
        ELSE /\ stack' = [stack EXCEPT ![t] = fr]
             /\ UNCHANGED <<callbacks, removed>>
  /\ UNCHANGED <<is_cancelling, is_cancelled, next_token, state_, notified,
                 parent_token, issued, accepted, refused, started, passBy>>
  /\ UNCHANGED mu

\* Mutant: the destructor does not call StartCancel.
DtorCancel_NoCancel(t) ==
  /\ AtTop(t, "Dtor", "cancel")
  /\ stack' = [stack EXCEPT ![t] = Append(Below(t), [Top(t) EXCEPT !.pc = "end"])]
  /\ UNCHANGED <<is_cancelling, callbacks, passBy, mu>>
  /\ UNCHANGED <<life, is_cancelled, next_token, state_, notified,
                 parent_token, issued, accepted, refused, removed, started>>

\* Lines 132-134.
DtorCancel(t) ==
  /\ AtTop(t, "Dtor", "cancel")
  /\ LET base == Append(Below(t), [Top(t) EXCEPT !.pc = "end"])
     IN IF state_[Top(t).m]
        THEN /\ Free(Top(t).m)
             /\ StartCancelEnter(t, Top(t).m, base, "dtor")
        ELSE /\ stack' = [stack EXCEPT ![t] = base]
             /\ UNCHANGED <<is_cancelling, callbacks, passBy, mu>>
  /\ UNCHANGED <<life, is_cancelled, next_token, state_, notified,
                 parent_token, issued, accepted, refused, removed, started>>

\* Line 135: the destructor returns and the object is gone.
DtorEnd(t) ==
  /\ AtTop(t, "Dtor", "end")
  /\ life' = [life EXCEPT ![Top(t).m] = "dead"]
  /\ Finish(t, Below(t))
  /\ UNCHANGED <<is_cancelling, is_cancelled, next_token, state_, callbacks,
                 notified, parent_token, issued, accepted, refused, removed,
                 started, passBy>>
  /\ UNCHANGED mu

Next ==
  \/ \E t \in Threads, m \in Managers, n \in Tokens : GetToken(t, m, n)
  \/ \E t \in Threads, m \in Managers, k \in Tokens, r \in BOOLEAN :
       RegisterCallback(t, m, k, r)
  \/ \E t \in Threads, m \in Managers, k \in Tokens, r \in BOOLEAN :
       DeregisterCallback(t, m, k, r)
  \/ \E t \in Threads, r \in BOOLEAN : DeregisterWake(t, r)
  \/ \E t \in Threads, m \in Managers, k \in Tokens, r \in BOOLEAN :
       TryDeregisterCallback(t, m, k, r)
  \/ \E t \in Threads, m \in Managers, r \in BOOLEAN : IsCancelled(t, m, r)
  \/ \E t \in Threads, m \in Managers : StartCancel(t, m)
  \/ \E t \in Threads, k \in Tokens : StartCancelInvoke(t, k)
  \/ \E t \in Threads : CallbackReturn(t)
  \/ \E t \in Threads : StartCancelFinish(t)
  \/ \E t \in Threads : StartCancelNotify(t)
  \/ \E t \in Threads : CtorGetToken(t)
  \/ \E t \in Threads : CtorRegister(t)
  \/ \E t \in Threads, m \in Managers : DtorBegin(t, m)
  \/ \E t \in Threads : DtorCancel(t)
  \/ \E t \in Threads : DtorEnd(t)

Spec == Init /\ [][Next]_vars

\* A thread inside a call keeps running: it takes the next step of the code
\* of StartCancel, of a blocked DeregisterCallback, of the constructor or of
\* the destructor, and a callback that can return does return.  Whether a
\* thread makes a new call is up to the thread.
Continue(t) ==
  \/ \E k \in Tokens : StartCancelInvoke(t, k)
  \/ CallbackReturn(t)
  \/ StartCancelFinish(t)
  \/ StartCancelNotify(t)
  \/ \E r \in BOOLEAN : DeregisterWake(t, r)
  \/ CtorRegister(t)
  \/ DtorCancel(t)
  \/ DtorEnd(t)

FairSpec == Spec /\ \A t \in Threads : WF_vars(Continue(t))

\* ----------------------------------------------------------------- claims
Registered(m) == accepted[m] \ removed[m]

\* C1: every callback whose RegisterCallback returned true and that was not
\* removed before the Idle->Cancelling transition is invoked exactly once:
\* no callback is ever invoked twice, only registered callbacks are invoked,
\* and once the pass is over each of them has been invoked.
C1_ExactlyOnce ==
  \A m \in Managers : \A k \in Tokens :
    /\ started[m][k] <= 1
    /\ started[m][k] = 1 => k \in Registered(m)
    /\ (ManagerState(m) = "Cancelled" /\ k \in Registered(m)) => started[m][k] = 1

C1_Witness ==
  \E m \in Managers : \E k \in Tokens : \E j \in Tokens :
    /\ ManagerState(m) = "Cancelled" /\ passBy[m] = "user"
    /\ k \in Registered(m) /\ started[m][k] = 1
    /\ j \in removed[m] /\ started[m][j] = 0

\* C2: RegisterCallback on a manager that is Cancelling or Cancelled returns
\* false and leaves the registry as it was, and a callback refused this way
\* is never stored and never invoked, by a later StartCancel or the destructor.
C2_RefusedRegistration ==
  /\ [][\A t \in Threads, m \in Managers, k \in Tokens, r \in BOOLEAN :
         (RegisterCallback(t, m, k, r) /\ ManagerState(m) # "Idle")
           => /\ r = FALSE
              /\ callbacks' = callbacks /\ state_' = state_]_vars
  /\ [](\A m \in Managers : \A k \in refused[m] :
          /\ started[m][k] = 0
          /\ k \notin callbacks[m] /\ ~Unfinished(m, k))

C2_Witness ==
  \E m \in Managers : \E k \in refused[m] :
    life[m] = "dead" /\ passBy[m] = "user" /\ k \notin {parent_token["c"]}

\* C3: cancellation is monotonic: is_cancelled_ never goes back to false, and
\* a constructed manager changes state only Idle->Cancelling and
\* Cancelling->Cancelled.
C3_Monotonic ==
  [][\A m \in Managers :
       /\ is_cancelled[m] => is_cancelled'[m]
       /\ (life[m] \in {"live", "dtor", "dead"} /\ ManagerState(m)' # ManagerState(m))
            => \/ ManagerState(m) = "Idle" /\ ManagerState(m)' = "Cancelling"
               \/ ManagerState(m) = "Cancelling" /\ ManagerState(m)' = "Cancelled"]_vars

C3_Witness ==
  \E m \in Managers :
    /\ ManagerState(m) = "Cancelled" /\ passBy[m] # "none"
    /\ refused[m] # {} /\ life[m] = "dead"

\* C4: a DeregisterCallback call that finds the manager Cancelling does not
\* return before every callback of the pass in flight has returned, and it
\* returns false: it either blocks on the notification or (no state_, so no
\* callback) returns at once, and it wakes only when the pass is over.
C4_DeregisterRendezvous ==
  [][\A t \in Threads, r \in BOOLEAN :
       /\ DeregisterWake(t, r)
            => AllReturned(Top(t).m) /\ r = FALSE
       /\ \A m \in Managers, k \in Tokens :
            (DeregisterCallback(t, m, k, r) /\ ManagerState(m) = "Cancelling")
              => /\ r = FALSE /\ callbacks' = callbacks
                 /\ IF stack'[t] = Returned(t, "DeregisterCallback")
                    THEN AllReturned(m)
                    ELSE Top(t)'.op = "Deregister"
       /\ (DtorBegin(t, "c") /\ ManagerState("p") = "Cancelling")
            => \/ Top(t)'.op = "Deregister"
               \/ AllReturned("p")]_vars

C4_Witness ==
  \E t \in Threads :
    /\ AtTop(t, "Deregister", "wait") /\ Len(stack[t]) = 1
    /\ notified[Top(t).m]
    /\ \E k \in Tokens : started[Top(t).m][k] = 1

\* C5: whenever IsCancelled is true of a manager, no callback of its pass is
\* still executing or still waiting to be invoked.
C5_CancelledMeansDone ==
  \A m \in Managers : is_cancelled[m] => AllReturned(m)

C5_Witness ==
  \E t \in Threads : \E k \in Tokens :
    /\ AtTop(t, "StartCancel", "notify") /\ is_cancelled[Top(t).m]
    /\ started[Top(t).m][k] = 1
    /\ \E u \in Threads : AtTop(u, "Deregister", "wait")

\* C6: a child constructed while its parent is Cancelling or Cancelled (its
\* registration on the parent is refused) is Cancelled from the return of its
\* constructor on: no pass and no callback ever runs on it and it never
\* accepts or stores a callback.
BornCancelled == parent_token["c"] \in refused["p"]

C6_BornCancelled ==
  BornCancelled =>
    /\ life["c"] \in {"live", "dtor", "dead"}
    /\ ManagerState("c") = "Cancelled"
    /\ passBy["c"] = "none"
    /\ \A k \in Tokens : started["c"][k] = 0
    /\ accepted["c"] = {} /\ callbacks["c"] = {} /\ ~state_["c"]
    /\ AllReturned("c")

C6_Witness ==
  /\ BornCancelled /\ refused["c"] # {}
  /\ life["c"] = "dead"

\* C7: once the child's destructor has completed, its cascade callback is
\* neither stored in the parent's registry nor pending or executing in the
\* parent's pass (it was removed, has finished, or was never accepted), so
\* the parent cannot invoke it any more.
C7_NoCascadeAfterDestruction ==
  life["c"] = "dead" =>
    /\ parent_token["c"] \notin callbacks["p"]
    /\ ~Unfinished("p", parent_token["c"])
    /\ \/ parent_token["c"] \in removed["p"] /\ started["p"][parent_token["c"]] = 0
       \/ parent_token["c"] \in accepted["p"] /\ started["p"][parent_token["c"]] = 1
       \/ BornCancelled

C7_Witness ==
  /\ life["c"] = "dead" /\ is_cancelled["p"]
  /\ parent_token["c"] \in removed["p"]
  /\ \E k \in Tokens : started["p"][k] = 1

\* A StartCancel call that thread t made on m returns with this step: at
\* once (line 50), or after its own pass (line 74).
StartCancelReturns(t, m) ==
  \/ StartCancel(t, m) /\ stack'[t] = Returned(t, "StartCancel")
  \/ /\ StartCancelNotify(t) /\ Len(stack[t]) = 1
     /\ Top(t).op = "StartCancel" /\ Top(t).m = m
StartCancelPassReturns(t, m) ==
  /\ StartCancelNotify(t) /\ Len(stack[t]) = 1
  /\ Top(t).op = "StartCancel" /\ Top(t).m = m

\* C8 as stated: for a live child c constructed on an Idle parent p with h
\* registered on c, when a call to p.StartCancel() returns h has been invoked
\* exactly once and c.IsCancelled() is true.
C8_Original ==
  [][\A t \in Threads, h \in Tokens :
       (/\ StartCancelReturns(t, "p")
        /\ life["c"] = "live" /\ parent_token["c"] \in Registered("p")
        /\ h \in Registered("c"))
         => is_cancelled'["c"] /\ started'["c"][h] = 1]_vars

\* C8 amended: for such a child, h is never invoked more than once; when the
\* p.StartCancel() call that made p's Idle->Cancelling transition returns,
\* the cascade callback has run and c is Cancelling or Cancelled; and if c's
\* pass was started by the cascade (not by another thread's StartCancel on c
\* that is still in flight), h has been invoked once and has returned and
\* c.IsCancelled() is true.
C8_Cascade ==
  [][\A t \in Threads, h \in Tokens :
       (/\ StartCancelPassReturns(t, "p")
        /\ parent_token["c"] \in Registered("p")
        /\ h \in Registered("c"))
         => /\ started'["p"][parent_token["c"]] = 1
            /\ ManagerState("c")' \in {"Cancelling", "Cancelled"}
            /\ started'["c"][h] <= 1
            /\ passBy["c"] = "cascade"
                 => /\ is_cancelled'["c"]
                    /\ started'["c"][h] = 1
                    /\ ~Unfinished("c", h)']_vars

C8_Witness ==
  \E t \in Threads, h \in Tokens :
    /\ AtTop(t, "StartCancel", "notify") /\ Len(stack[t]) = 1 /\ Top(t).m = "p"
    /\ life["c"] = "live" /\ parent_token["c"] \in Registered("p")
    /\ h \in Registered("c") /\ passBy["c"] = "cascade"
    /\ is_cancelled["c"] /\ started["c"][h] = 1

\* C9: the tokens a manager issues (to GetToken callers and to a child under
\* construction) are strictly increasing in order of issue, hence pairwise
\* distinct and never reused, never the invalid token, and each is less than
\* the manager's counter.
C9_Tokens ==
  /\ \A m \in Managers :
       /\ \A i \in 1..Len(issued[m]) : \A j \in 1..Len(issued[m]) :
            i < j => issued[m][i] < issued[m][j]
       /\ \A i \in 1..Len(issued[m]) :
            issued[m][i] # kInvalidToken /\ issued[m][i] < next_token[m]
  /\ life["c"] # "unborn"
       => \E i \in 1..Len(issued["p"]) : issued["p"][i] = parent_token["c"]

C9_Witness ==
  /\ Len(issued["p"]) = 2
  /\ parent_token["c"] = issued["p"][2]

\* C10: DeregisterCallback(token) on an Idle manager returns true whether or
\* not a callback is stored under token, erases that entry only, and changes
\* no other entry, no flag and no other manager; a callback removed this way
\* is never stored again, pending or invoked.
C10_DeregisterIdle ==
  /\ [][\A t \in Threads, m \in Managers, k \in Tokens, r \in BOOLEAN :
         (DeregisterCallback(t, m, k, r) /\ ManagerState(m) = "Idle")
           => /\ r = TRUE /\ stack'[t] = Returned(t, "DeregisterCallback")
              /\ callbacks'[m] = callbacks[m] \ {k}
              /\ \A n \in Managers \ {m} : callbacks'[n] = callbacks[n]
              /\ is_cancelling' = is_cancelling /\ is_cancelled' = is_cancelled
              /\ state_' = state_ /\ notified' = notified
              /\ next_token' = next_token]_vars
  /\ [](\A m \in Managers : \A k \in removed[m] :
          /\ started[m][k] = 0
          /\ k \notin callbacks[m] /\ ~Unfinished(m, k))

C10_Witness ==
  \E m \in Managers : \E k \in removed[m] : \E j \in Tokens :
    /\ life[m] = "dead" /\ started[m][j] = 1 /\ ~IsCascade(m, k)

\* C11: TryDeregisterCallback never waits: it returns in the step that takes
\* the lock, with no wait on the notification; on a manager that is
\* Cancelling or Cancelled it returns false and changes nothing, also while
\* callbacks of the pass are executing; on an Idle manager it erases the
\* entry of the token (if any), nothing else, and returns true.
C11_TryDeregister ==
  [][\A t \in Threads, m \in Managers, k \in Tokens, r \in BOOLEAN :
       TryDeregisterCallback(t, m, k, r)
         => /\ stack'[t] = Returned(t, "TryDeregisterCallback")
            /\ notified' = notified
            /\ is_cancelling' = is_cancelling /\ is_cancelled' = is_cancelled
            /\ state_' = state_
            /\ \A n \in Managers \ {m} : callbacks'[n] = callbacks[n]
            /\ IF ManagerState(m) = "Idle"
               THEN r = TRUE /\ callbacks'[m] = callbacks[m] \ {k}
               ELSE r = FALSE /\ callbacks'[m] = callbacks[m]]_vars

C11_Witness ==
  \E t \in Threads : \E k \in Tokens :
    /\ AtTop(t, "Callback", "TryDeregisterCallback")
    /\ ManagerState(Top(t).m) = "Cancelling"
    /\ k \in removed[Top(t).m] /\ ~IsCascade(Top(t).m, k)

\* The state of manager m that StartCancel may touch is as it was.
SameManager(m) ==
  /\ is_cancelling'[m] = is_cancelling[m] /\ is_cancelled'[m] = is_cancelled[m]
  /\ callbacks'[m] = callbacks[m] /\ state_'[m] = state_[m]
  /\ notified'[m] = notified[m] /\ started'[m] = started[m]
  /\ passBy'[m] = passBy[m]

\* C12: over a manager's lifetime at most one StartCancel call makes the
\* Idle->Cancelling transition (a step that sets is_cancelling_ finds the
\* manager Idle and no earlier transition); any other call, made by a thread,
\* by the parent's cascade or by the destructor, finds the manager Cancelling
\* or Cancelled, starts no pass, invokes no callback and leaves the flags and
\* the registry as they were.
C12_Idempotent ==
  [][/\ \A m \in Managers :
          (is_cancelling'[m] /\ ~is_cancelling[m])
            => ManagerState(m) = "Idle" /\ passBy[m] = "none" /\ passBy'[m] # "none"
     /\ \A t \in Threads, m \in Managers :
          (StartCancel(t, m) /\ ManagerState(m) # "Idle")
            => SameManager(m) /\ stack'[t] = Returned(t, "StartCancel")
     /\ \A t \in Threads, k \in Tokens :
          (/\ StartCancelInvoke(t, k) /\ IsCascade(Top(t).m, k)
           /\ ManagerState("c") # "Idle")
            => SameManager("c") /\ Top(t)'.op = "Callback"
     /\ \A t \in Threads :
          (DtorCancel(t) /\ ManagerState(Top(t).m) # "Idle")
            => SameManager(Top(t).m) /\ Top(t)'.pc = "end"]_vars

C12_Witness ==
  \E h \in Tokens :
    /\ passBy["c"] = "user" /\ is_cancelled["c"] /\ started["c"][h] = 1
    /\ started["p"][parent_token["c"]] = 1
    /\ life["c"] = "dead" /\ state_["c"]

\* Thread t waits in DeregisterCallback for the notification of a pass that
\* t itself is running further down its stack: the call was made from a
\* callback of that pass.
SelfBlocked(t) ==
  /\ AtTop(t, "Deregister", "wait")
  /\ \E i \in 1..(Len(stack[t]) - 1) :
       /\ stack[t][i].op = "StartCancel" /\ stack[t][i].pc = "run"
       /\ stack[t][i].m = Top(t).m

\* The pass of m cannot go on: the thread running it is SelfBlocked above it.
Stuck(m) ==
  \E t \in Threads :
    /\ SelfBlocked(t)
    /\ \E i \in 1..Len(stack[t]) :
         stack[t][i].op = "StartCancel" /\ stack[t][i].m = m

\* C13 as stated: a callback may call any operation of its manager,
\* DeregisterCallback included, without deadlock: no thread ever waits, inside
\* a callback, for the notification that only its own pass will send.
C13_Original == \A t \in Threads : ~SelfBlocked(t)

\* A callback of the pass of m has called back into m and is executing again.
Recalled(m) ==
  \E t \in Threads : InCallback(t) /\ Top(t).m = m /\ Top(t).pc # "body"

\* C13 amended: a callback of a pass of m may call GetToken, RegisterCallback,
\* TryDeregisterCallback, StartCancel and IsCancelled on m: the call returns
\* to the callback in one step, and the pass still reaches Cancelled unless
\* some callback of it calls DeregisterCallback; a DeregisterCallback made on
\* m from a callback of m's pass waits for that pass and never returns.
C13_Reentrant ==
  /\ [][\A t \in Threads, m \in Managers :
         (/\ ~Idle(t) /\ Top(t).m = m
          /\ \/ \E n \in Tokens : GetToken(t, m, n)
             \/ \E k \in Tokens, r \in BOOLEAN : RegisterCallback(t, m, k, r)
             \/ \E k \in Tokens, r \in BOOLEAN : TryDeregisterCallback(t, m, k, r)
             \/ StartCancel(t, m)
             \/ \E r \in BOOLEAN : IsCancelled(t, m, r))
           => /\ InCallback(t)' /\ Below(t)' = Below(t)
              /\ Top(t)'.k = Top(t).k /\ Top(t)'.pc # "body"
              /\ ManagerState(m) = "Cancelling" /\ ManagerState(m)' = "Cancelling"]_vars
  /\ [][\A t \in Threads : SelfBlocked(t) => SelfBlocked(t)']_vars
  /\ \A m \in Managers :
       [](Recalled(m) => <>(is_cancelled[m] \/ Stuck(m)))

C13_Witness ==
  \E t \in Threads :
    /\ AtTop(t, "Callback", "RegisterCallback")
    /\ ManagerState(Top(t).m) = "Cancelling" /\ refused[Top(t).m] # {}
    /\ \A u \in Threads \ {t} : Idle(u)

\* C14: while a callback invoked by StartCancel is executing, no thread holds
\* the lock of that manager, and a RegisterCallback, TryDeregisterCallback,
\* GetToken or StartCancel that another thread makes on the manager meanwhile
\* takes the lock and returns in that step.
C14_CallbacksUnlocked ==
  /\ [](\A m \in Managers :
          (\E k \in Tokens : Executing(m, k)) => mu[m] = NoThread)
  /\ [][\A u \in Threads, m \in Managers :
         (/\ Idle(u) /\ \E k \in Tokens : Executing(m, k)
          /\ \/ \E n \in Tokens : GetToken(u, m, n)
             \/ \E k \in Tokens, r \in BOOLEAN : RegisterCallback(u, m, k, r)
             \/ \E k \in Tokens, r \in BOOLEAN : TryDeregisterCallback(u, m, k, r)
             \/ StartCancel(u, m))
           => stack'[u] = <<>> /\ mu' = mu]_vars

C14_Witness ==
  \E t \in Threads, u \in Threads :
    /\ AtTop(t, "Callback", "body") /\ ~IsCascade(Top(t).m, Top(t).k)
    /\ mu[Top(t).m] = NoThread
    /\ \A j \in Tokens \ {Top(t).k} : started[Top(t).m][j] = 0
    /\ refused[Top(t).m] # {}
    /\ u # t /\ Idle(u)

\* C15: the destructor reaches lines 132-134 only after its
\* DeregisterCallback on the parent has returned, the cascade callback being
\* then neither stored on the parent nor pending or executing there; if the
\* manager is then Idle with state_ allocated, the destructor's StartCancel
\* captures the whole registry (direct registrants and children's cascade
\* callbacks) and the destroying thread invokes each captured callback;
\* without state_ no pass is run; and once destruction has completed every
\* callback that was registered and not removed has been invoked exactly once
\* and has returned.
C15_DestructorPass ==
  /\ [][\A t \in Threads :
         DtorCancel(t)
           => LET m == Top(t).m
              IN /\ Parent(m) # NoManager
                      => /\ parent_token[m] \notin callbacks[Parent(m)]
                         /\ ~Unfinished(Parent(m), parent_token[m])
                 /\ IF state_[m] /\ ManagerState(m) = "Idle"
                    THEN /\ passBy'[m] = "dtor" /\ callbacks'[m] = {}
                         /\ Top(t)'.op = "StartCancel"
                         /\ Top(t)'.todo = callbacks[m]
                    ELSE SameManager(m) /\ Top(t)'.pc = "end"]_vars
  /\ [][\A t \in Threads, k \in Tokens :
         (StartCancelInvoke(t, k) /\ passBy[Top(t).m] = "dtor")
           => /\ stack[t][1].op = "Dtor" /\ stack[t][1].pc = "end"
              /\ stack[t][1].m = Top(t).m /\ life[Top(t).m] = "dtor"]_vars
  /\ [](\A m \in Managers :
          life[m] = "dead"
            => \A k \in Registered(m) : started[m][k] = 1 /\ ~Unfinished(m, k))

C15_Witness ==
  \E k \in Tokens :
    /\ life["p"] = "dead" /\ passBy["p"] = "dtor"
    /\ parent_token["c"] \in Tokens
    /\ k \in Registered("p") /\ ~IsCascade("p", k) /\ started["p"][k] = 1
    /\ started["p"][parent_token["c"]] = 1
    /\ life["c"] = "live" /\ passBy["c"] = "cascade" /\ is_cancelled["c"]

\* Thread t is blocked in DeregisterCallback on m (line 104).
Blocked(t, m) == AtTop(t, "Deregister", "wait") /\ Top(t).m = m

\* C16: under fair scheduling, a manager that is Cancelling eventually is
\* Cancelled, and every thread blocked in DeregisterCallback on it eventually
\* returns, with false and with the manager Cancelled, unless a callback of
\* the pass does not return (it is blocked in a DeregisterCallback on a
\* manager whose pass its own thread is running).
C16_PassCompletes ==
  /\ \A m \in Managers :
       []((is_cancelling[m] \/ \E t \in Threads : Blocked(t, m))
            => <>(\/ is_cancelled[m] /\ \A t \in Threads : ~Blocked(t, m)
                  \/ Stuck(m)))
  /\ [][\A t \in Threads, r \in BOOLEAN :
         DeregisterWake(t, r) => r = FALSE /\ is_cancelled[Top(t).m]]_vars

C16_Witness ==
  \E t \in Threads :
    /\ Blocked(t, "p") /\ stack[t][1].op = "Dtor"
    /\ is_cancelled["p"] /\ notified["p"]
    /\ \A u \in Threads \ {t} : Idle(u)
    /\ is_cancelled["c"] /\ passBy["c"] = "cascade"

\* C17: the registry of a manager that is Cancelling or Cancelled is empty
\* (or state_ was never allocated); a step changes the registry only on an
\* Idle manager: a RegisterCallback (also the one of the child's constructor)
\* adds one entry, a DeregisterCallback (also the one of the child's
\* destructor) or TryDeregisterCallback erases one, and the step that makes
\* the Idle->Cancelling transition empties it.
C17_RegistryOnlyWhileIdle ==
  /\ [](\A m \in Managers :
          /\ ManagerState(m) # "Idle" => callbacks[m] = {}
          /\ ~state_[m] => callbacks[m] = {})
  /\ [][\A m \in Managers :
         callbacks'[m] # callbacks[m]
           => /\ ManagerState(m) = "Idle"
              /\ \/ /\ ManagerState(m)' = "Idle"
                    /\ \E k \in Tokens :
                         \/ /\ callbacks'[m] = callbacks[m] \cup {k}
                            /\ k \in accepted'[m] \ accepted[m]
                         \/ /\ callbacks'[m] = callbacks[m] \ {k}
                            /\ k \in removed'[m] \ removed[m]
                 \/ /\ ManagerState(m)' = "Cancelling"
                    /\ callbacks'[m] = {}
                    /\ \E t \in Threads :
                         /\ ~Idle(t)' /\ Top(t)'.op = "StartCancel"
                         /\ Top(t)'.m = m /\ Top(t)'.todo = callbacks[m]]_vars

C17_Witness ==
  \E m \in Managers : \E t \in Threads :
    /\ AtTop(t, "StartCancel", "run") /\ Top(t).m = m
    /\ Cardinality(Top(t).todo) = 2 /\ callbacks[m] = {} /\ state_[m]
    /\ refused[m] = {} /\ ManagerState(m) = "Cancelling"

\* C18 as stated: whenever a StartCancel call on a manager returns, whether
\* or not it made the transition, IsCancelled on that manager is true.
C18_Original ==
  [][\A t \in Threads, m \in Managers :
       StartCancelReturns(t, m) => is_cancelled'[m]]_vars

\* C18 amended: when a StartCancel call returns the manager is Cancelling or
\* Cancelled, never Idle; IsCancelled is true when the call that made the
\* Idle->Cancelling transition returns, when a call that found the manager
\* Cancelled returns, and when the destructor's call has returned; a call
\* that finds the manager Cancelling returns at once, before the pass in
\* flight has set is_cancelled_.
C18_AfterStartCancel ==
  [][/\ \A t \in Threads, m \in Managers :
          /\ StartCancelReturns(t, m)
               => ManagerState(m)' \in {"Cancelling", "Cancelled"}
          /\ StartCancelPassReturns(t, m) => is_cancelled'[m]
          /\ (StartCancel(t, m) /\ is_cancelled[m])
               => is_cancelled'[m] /\ stack'[t] = Returned(t, "StartCancel")
          /\ (StartCancel(t, m) /\ ManagerState(m) = "Cancelling")
               => stack'[t] = Returned(t, "StartCancel") /\ ~is_cancelled'[m]
     /\ \A t \in Threads :
          (DtorEnd(t) /\ state_[Top(t).m]) => is_cancelled[Top(t).m]]_vars

C18_Witness ==
  \E t \in Threads :
    /\ AtTop(t, "Callback", "StartCancel")
    /\ ManagerState(Top(t).m) = "Cancelling" /\ ~is_cancelled[Top(t).m]
    /\ passBy[Top(t).m] = "user"

\* The callback under token k of m is not stored in the registry, not pending
\* in a pass and not executing.
Quiet(m, k) == k \notin callbacks[m] /\ ~Unfinished(m, k)

\* C19: when DeregisterCallback(k) returns, at once or after the wait, with
\* true or false, and also when it is the destructor's call on the parent,
\* the callback under k is not stored, not pending and not executing (true:
\* it was erased or there was none; false: the manager is Cancelled, or is
\* Cancelling without state_ and so never had a callback); and a registered
\* callback that is in this condition stays in it and is never invoked again.
C19_DeregisterSafe ==
  [][/\ \A t \in Threads, m \in Managers, k \in Tokens, r \in BOOLEAN :
          (/\ DeregisterCallback(t, m, k, r)
           /\ stack'[t] = Returned(t, "DeregisterCallback"))
            => /\ Quiet(m, k)'
               /\ IF r THEN k \in removed'[m] \/ k \notin accepted[m]
                       ELSE is_cancelled'[m] \/ (~state_[m] /\ k \notin accepted[m])
     /\ \A t \in Threads, m \in Managers, k \in Tokens, r \in BOOLEAN :
          (DeregisterWake(t, r) /\ Top(t).m = m /\ Top(t).k = k)
            => r = FALSE /\ is_cancelled'[m] /\ Quiet(m, k)'
     /\ \A t \in Threads, k \in Tokens :
          (DtorBegin(t, "c") /\ Top(t)'.op = "Dtor" /\ k = parent_token["c"])
            => Quiet("p", k)'
     /\ \A m \in Managers, k \in Tokens :
          (k \in accepted[m] /\ Quiet(m, k))
            => Quiet(m, k)' /\ started'[m][k] = started[m][k]]_vars

C19_Witness ==
  \E t \in Threads :
    /\ Blocked(t, Top(t).m) /\ Len(stack[t]) = 1
    /\ Top(t).k \in accepted[Top(t).m] /\ started[Top(t).m][Top(t).k] = 1
    /\ is_cancelled[Top(t).m] /\ notified[Top(t).m]
    /\ Quiet(Top(t).m, Top(t).k)

\* C20: in every state in which the parent is Cancelled, a child bound to it
\* (its constructor has returned, it is not destroyed and its destructor has
\* not deregistered it from the parent) is Cancelling or Cancelled, never
\* Idle.
C20_ChildFollowsParent ==
  (/\ is_cancelled["p"] /\ life["c"] \in {"live", "dtor"}
   /\ parent_token["c"] \notin removed["p"])
    => ManagerState("c") \in {"Cancelling", "Cancelled"}

C20_Witness ==
  /\ is_cancelled["p"] /\ life["c"] = "live"
  /\ ManagerState("c") = "Cancelling" /\ passBy["c"] = "user"
  /\ started["p"][parent_token["c"]] = 1

====
